---- MODULE Spec2Model ----
(***************************************************************************)
(* Radiology DICOM service (src/main.py): the pixel normalisation pipeline *)
(* of _dicom_to_png_and_meta / _rescale_to_uint8, its tag extraction, and  *)
(* the upload handler's writes to the media directory and the study store. *)
(*                                                                         *)
(* numpy's float32 arithmetic is modelled bit-exactly: a float32 value is  *)
(* a pair <<m, e>> standing for m * 2^e, with 2^23 <= |m| < 2^24 (or       *)
(* <<0, 0>> for zero), and every operation rounds to nearest, ties to even.*)
(* Python floats (float64) that the code reads from decimal strings are    *)
(* rationals n/d; they turn into float32 where numpy casts them.  For the  *)
(* values enumerated below the float64 rounding of lo, hi and hi - lo lies *)
(* far below the float32 grid, so the cast of the rational is the cast of  *)
(* the float64.  The contents of the two PNG files are not part of the     *)
(* state: a file is its path and the upload that wrote it.                 *)
(***************************************************************************)
EXTENDS Integers, Sequences, FiniteSets, TLC

(* ------------------------------------------------------------------ *)
(* float32                                                            *)
(* ------------------------------------------------------------------ *)

RECURSIVE Pow2(_)
Pow2(k) ==
    IF k = 0 THEN 1 ELSE 2 * Pow2(k - 1)

Abs(x) ==
    IF x < 0 THEN 0 - x ELSE x

Sgn(x) ==
    IF x < 0 THEN 0 - 1 ELSE IF x = 0 THEN 0 ELSE 1

\* Significand width of IEEE-754 binary32 (np.float32): 24 bits.
MantBits == 24

MantMax == Pow2(MantBits)

MantMin == Pow2(MantBits - 1)

Zero32 == <<0, 0>>

\* Number of low bits to drop so that m fits in MantBits bits.
RECURSIVE ExtraBits(_)
ExtraBits(m) ==
    IF m < MantMax THEN 0 ELSE 1 + ExtraBits(m \div 2)

\* Number of doublings that bring 0 < m < 2^23 up to 2^23 <= m.
RECURSIVE MissingBits(_)
MissingBits(m) ==
    IF m >= MantMin THEN 0 ELSE 1 + MissingBits(m * 2)

\* Round the non-negative integer m (times 2^e) to a normalised float32,
\* to nearest, ties to even.
RoundPos(m, e) ==
    IF m = 0 THEN Zero32
    ELSE IF m < MantMin
         THEN LET k == MissingBits(m) IN <<m * Pow2(k), e - k>>
         ELSE LET s    == ExtraBits(m)
                  q    == m \div Pow2(s)
                  r    == m % Pow2(s)
                  half == IF s = 0 THEN 0 ELSE Pow2(s - 1)
                  up   == s > 0 /\ (r > half \/ (r = half /\ q % 2 = 1))
                  q2   == IF up THEN q + 1 ELSE q
              IN  IF q2 = MantMax THEN <<MantMin, e + s + 1>> ELSE <<q2, e + s>>

Round32(m, e) ==
    LET p == RoundPos(Abs(m), e) IN <<Sgn(m) * p[1], p[2]>>

Neg32(a) ==
    <<0 - a[1], a[2]>>

\* a < b for two normalised float32 values.
Lt32(a, b) ==
    IF a[1] < 0 /\ b[1] < 0
    THEN \/ b[2] < a[2]
         \/ (b[2] = a[2] /\ a[1] < b[1])
    ELSE IF a[1] > 0 /\ b[1] > 0
    THEN \/ a[2] < b[2]
         \/ (a[2] = b[2] /\ a[1] < b[1])
    ELSE a[1] < b[1]

Min32(a, b) ==
    IF Lt32(b, a) THEN b ELSE a

Max32(a, b) ==
    IF Lt32(a, b) THEN b ELSE a

\* Long division: `bits` more quotient bits of r/den (r < den), appended to acc.
RECURSIVE LongDiv(_, _, _, _)
LongDiv(r, den, bits, acc) ==
    IF bits = 0 THEN <<acc, r>>
    ELSE IF 2 * r >= den
         THEN LongDiv(2 * r - den, den, bits - 1, 2 * acc + 1)
         ELSE LongDiv(2 * r, den, bits - 1, 2 * acc)

\* Scale num up, then den up, until den <= num < 2*den; e counts the shifts.
RECURSIVE Align(_, _, _)
Align(num, den, e) ==
    IF num < den THEN Align(2 * num, den, e - 1)
    ELSE IF num >= 2 * den THEN Align(num, 2 * den, e + 1)
    ELSE <<num, den, e>>

\* The float32 nearest to (num / den) * 2^e, num > 0, den > 0: 26 quotient
\* bits and a sticky bit for the remainder, then rounded.
DivPos(num, den, e) ==
    LET al == Align(num, den, e)
        qr == LongDiv(al[1] - al[2], al[2], MantBits + 1, 1)
        st == IF qr[2] = 0 THEN 0 ELSE 1
    IN  RoundPos(2 * qr[1] + st, al[3] - (MantBits + 2))

\* A Python float (the rational n/d, d > 0) cast to float32.
F32(n, d) ==
    IF n = 0 THEN Zero32
    ELSE LET p == DivPos(Abs(n), d, 0) IN <<Sgn(n) * p[1], p[2]>>

Div32(a, b) ==
    IF a[1] = 0 THEN Zero32
    ELSE LET p == DivPos(Abs(a[1]), Abs(b[1]), a[2] - b[2])
         IN  <<Sgn(a[1]) * Sgn(b[1]) * p[1], p[2]>>

\* Half of the significand width: the 24x24-bit product is formed from
\* 12-bit halves so that no partial product leaves 31 bits.
HalfBits == MantBits \div 2

Mul32(a, b) ==
    IF a[1] = 0 \/ b[1] = 0 THEN Zero32
    ELSE LET B    == Pow2(HalfBits)
             a1   == Abs(a[1]) \div B
             a0   == Abs(a[1]) % B
             b1   == Abs(b[1]) \div B
             b0   == Abs(b[1]) % B
             mid  == a1 * b0 + a0 * b1
             low  == (mid % B) * B + a0 * b0
             Lo   == low % MantMax
             Hi   == a1 * b1 + (mid \div B) + (low \div MantMax)
             Q    == Pow2(MantBits - 2)
             st   == IF Lo % Q = 0 THEN 0 ELSE 1
             m    == 2 * (4 * Hi + (Lo \div Q)) + st
             p    == RoundPos(m, a[2] + b[2] + MantBits - 3)
         IN  <<Sgn(a[1]) * Sgn(b[1]) * p[1], p[2]>>

\* Guard bits kept below the significand when the operands of a sum are
\* too far apart to be added exactly (guard, round, sticky).
GuardBits == MantBits \div 8

\* Largest exponent gap at which both operands still fit one 31-bit sum.
ExactGap == 2 * GuardBits

Add32(a, b) ==
    IF a[1] = 0 THEN b
    ELSE IF b[1] = 0 THEN a
    ELSE LET big   == IF a[2] >= b[2] THEN a ELSE b
             small == IF a[2] >= b[2] THEN b ELSE a
             d     == big[2] - small[2]
         IN  IF d <= ExactGap
             THEN Round32(big[1] * Pow2(d) + small[1], small[2])
             ELSE LET G  == Pow2(GuardBits)
                      sh == IF d > MantBits + GuardBits THEN 0
                            ELSE (Abs(small[1]) * G) \div Pow2(d)
                      ex == d <= MantBits + GuardBits
                            /\ (Abs(small[1]) * G) % Pow2(d) = 0
                      S  == IF ex \/ sh % 2 = 1 THEN sh ELSE sh + 1
                  IN  Round32(big[1] * G + Sgn(small[1]) * S, big[2] - GuardBits)

Sub32(a, b) ==
    Add32(a, Neg32(b))

\* Trunc32 with rounding to nearest instead of truncation.
RoundNearest32(a) ==
    IF a[1] = 0 THEN 0
    ELSE IF a[2] >= 0 THEN a[1] * Pow2(a[2])
    ELSE IF 0 - a[2] > MantBits THEN 0
    ELSE (a[1] + Pow2(0 - a[2] - 1)) \div Pow2(0 - a[2])

\* astype(np.uint8) of a float32 in [0, 255]: truncation toward zero.
Trunc32(a) ==
    IF a[1] = 0 THEN 0
    ELSE IF a[2] >= 0 THEN a[1] * Pow2(a[2])
    ELSE IF 0 - a[2] >= MantBits THEN 0
    ELSE a[1] \div Pow2(0 - a[2])

(* ------------------------------------------------------------------ *)
(* Python values                                                      *)
(* ------------------------------------------------------------------ *)

\* Optional[T]: None is the empty sequence, a value x is <<x>>.
None == <<>>

Some(v) == <<v>>

\* A Python float read from a decimal string: the rational n/d, d > 0.
Rat(n, d) == [n |-> n, d |-> d]

RatSub(a, b) == Rat(a.n * b.d - b.n * a.d, a.d * b.d)

RatAdd(a, b) == Rat(a.n * b.d + b.n * a.d, a.d * b.d)

RatHalf(a) == Rat(a.n, 2 * a.d)

RatF32(r) == F32(r.n, r.d)

\* An element of the data set: present and well formed ("ok", with its
\* value), absent ("missing"), or present with a value its conversion
\* (str, int, float, indexing) raises on ("malformed").
Ok(v) == [st |-> "ok", v |-> <<v>>]

Missing == [st |-> "missing", v |-> <<>>]

Malformed == [st |-> "malformed", v |-> <<>>]

\* A numeric element as pydicom hands it over: one value, or a MultiValue.
Single(r) == [multi |-> FALSE, vals |-> <<r>>]

Multi(rs) == [multi |-> TRUE, vals |-> rs]

StringTags ==
    {"PatientID", "PatientName", "Modality", "StudyDate", "SeriesDescription",
     "PhotometricInterpretation"}

IntTags == {"InstanceNumber", "Rows", "Columns", "BitsAllocated"}

FloatTags == {"WindowCenter", "WindowWidth", "RescaleSlope", "RescaleIntercept"}

TagNames == StringTags \cup IntTags \cup FloatTags

(* ------------------------------------------------------------------ *)
(* _rescale_to_uint8                                                  *)
(* ------------------------------------------------------------------ *)

\* arr.astype(np.float32)
Astype32(arr) ==
    IF arr.dtype = "float32" THEN arr
    ELSE [arr EXCEPT !.dtype = "float32",
                     !.px = [i \in DOMAIN arr.px |-> F32(arr.px[i], 1)]]

RECURSIVE SeqMin(_)
SeqMin(s) ==
    IF Len(s) = 1 THEN s[1] ELSE Min32(s[1], SeqMin(Tail(s)))

RECURSIVE SeqMax(_)
SeqMax(s) ==
    IF Len(s) = 1 THEN s[1] ELSE Max32(s[1], SeqMax(Tail(s)))

\* window_center is not None and window_width is not None and window_width > 0
UseWindow(window_center, window_width) ==
    /\ window_center # None
    /\ window_width # None
    /\ window_width[1].n > 0

\* lo = window_center - window_width / 2, in Python floats
WindowLo(window_center, window_width) ==
    RatSub(window_center[1], RatHalf(window_width[1]))

\* hi = window_center + window_width / 2, in Python floats
WindowHi(window_center, window_width) ==
    RatAdd(window_center[1], RatHalf(window_width[1]))

\* a = np.clip(a, lo, hi); a = (a - lo) / (hi - lo), the scalars cast to float32
Windowed(v, lo, hi) ==
    LET c == Min32(Max32(v, RatF32(lo)), RatF32(hi))
    IN  Div32(Sub32(c, RatF32(lo)), RatF32(RatSub(hi, lo)))

\* MinMaxScaled with the minimum not subtracted from the sample.
MinMaxScaledNoShift(v, mn, mx) ==
    IF mx = mn THEN Zero32
    ELSE Div32(v, Sub32(mx, mn))

\* MinMaxScaled with a flat image left as it is instead of zeroed.
MinMaxScaledFlatKept(v, mn, mx) ==
    IF mx = mn THEN v
    ELSE Div32(Sub32(v, mn), Sub32(mx, mn))

\* a = a * 0 when mx == mn, else a = (a - mn) / (mx - mn)
MinMaxScaled(v, mn, mx) ==
    IF mx = mn THEN Zero32
    ELSE Div32(Sub32(v, mn), Sub32(mx, mn))

\* (a * 255.0).clip(0, 255).astype(np.uint8)
ToUint8(v) ==
    Trunc32(Min32(Max32(Mul32(v, F32(255, 1)), Zero32), F32(255, 1)))

rescale_to_uint8(arr, window_center, window_width) ==
    LET a  == Astype32(arr)
        sc == IF UseWindow(window_center, window_width)
              THEN LET lo == WindowLo(window_center, window_width)
                       hi == WindowHi(window_center, window_width)
                   IN  [i \in DOMAIN a.px |-> Windowed(a.px[i], lo, hi)]
              ELSE LET mn == SeqMin(a.px)
                       mx == SeqMax(a.px)
                   IN  [i \in DOMAIN a.px |-> MinMaxScaled(a.px[i], mn, mx)]
    IN  [dtype |-> "uint8", rows |-> a.rows, cols |-> a.cols,
         px |-> [i \in DOMAIN a.px |-> ToUint8(sc[i])]]

(* ------------------------------------------------------------------ *)
(* _dicom_to_png_and_meta: tags, rescale, polarity, dimensions        *)
(* ------------------------------------------------------------------ *)

\* g(tag): str(getattr(ds, tag)) if hasattr(ds, tag) else default, any
\* exception giving the default (None).
g(ds, tag) ==
    IF ds.tags[tag].st = "ok" THEN ds.tags[tag].v ELSE None

\* int(getattr(ds, "InstanceNumber")) if present, None on any exception.
InstanceNumberOf(ds) ==
    IF ds.tags["InstanceNumber"].st = "ok" THEN ds.tags["InstanceNumber"].v
    ELSE None

\* float(wc[0] if hasattr(wc, "__len__") else wc); raises on an empty
\* MultiValue or a value float() rejects.
FloatRaises(t) ==
    \/ t.st = "malformed"
    \/ (t.st = "ok" /\ Len(t.v[1].vals) = 0)

FloatOf(t) == t.v[1].vals[1]

\* The one try block around both window tags: the centre is converted
\* first, the width second, and an exception leaves what is not yet
\* assigned at None.
WindowCenterOf(ds) ==
    LET wc == ds.tags["WindowCenter"]
    IN  IF wc.st = "ok" /\ ~FloatRaises(wc) THEN Some(FloatOf(wc)) ELSE None

WindowWidthOf(ds) ==
    LET wc == ds.tags["WindowCenter"]
        ww == ds.tags["WindowWidth"]
    IN  IF FloatRaises(wc) THEN None
        ELSE IF ww.st = "ok" /\ ~FloatRaises(ww) THEN Some(FloatOf(ww))
        ELSE None

\* float(getattr(ds, name, default))
FloatOrDefault(t, default) ==
    IF t.st = "missing" THEN default ELSE FloatOf(t)

\* The try block of the rescale: slope and intercept are read first, so an
\* exception on either leaves arr as ds.pixel_array gave it.
RescaleRaises(ds) ==
    \/ FloatRaises(ds.tags["RescaleSlope"])
    \/ FloatRaises(ds.tags["RescaleIntercept"])

\* ApplyRescale with the intercept added before the slope is applied.
ApplyRescaleInterceptFirst(ds, arr) ==
    IF RescaleRaises(ds) THEN arr
    ELSE LET slope     == FloatOrDefault(ds.tags["RescaleSlope"], Rat(1, 1))
             intercept == FloatOrDefault(ds.tags["RescaleIntercept"], Rat(0, 1))
             a         == Astype32(arr)
         IN  [a EXCEPT !.px = [i \in DOMAIN a.px |->
                 Mul32(Add32(a.px[i], RatF32(intercept)), RatF32(slope))]]

\* arr = (arr.astype(np.float32) * slope) + intercept
ApplyRescale(ds, arr) ==
    IF RescaleRaises(ds) THEN arr
    ELSE LET slope     == FloatOrDefault(ds.tags["RescaleSlope"], Rat(1, 1))
             intercept == FloatOrDefault(ds.tags["RescaleIntercept"], Rat(0, 1))
             a         == Astype32(arr)
         IN  [a EXCEPT !.px = [i \in DOMAIN a.px |->
                 Add32(Mul32(a.px[i], RatF32(slope)), RatF32(intercept))]]

\* img8 = 255 - img8, on the uint8 array
Invert(img8) ==
    [img8 EXCEPT !.px = [i \in DOMAIN img8.px |-> 255 - img8.px[i]]]

\* Polarity inverting whenever any photometric interpretation is present.
PolarityAnyPresent(photometric_interpretation, img8) ==
    IF photometric_interpretation # None THEN Invert(img8) ELSE img8

\* if photometric_interpretation == "MONOCHROME1": img8 = 255 - img8
Polarity(photometric_interpretation, img8) ==
    IF photometric_interpretation = Some("MONOCHROME1") THEN Invert(img8)
    ELSE img8

\* int(getattr(ds, name, default)), outside any try block
IntRaises(t) == t.st = "malformed"

IntOrDefault(t, default) ==
    IF t.st = "missing" THEN default ELSE t.v[1]

DimsRaise(ds) ==
    \/ IntRaises(ds.tags["Rows"])
    \/ IntRaises(ds.tags["Columns"])
    \/ IntRaises(ds.tags["BitsAllocated"])

\* The fields of meta taken from the tags (lines 114-136).
TagMeta(ds) ==
    [patient_id         |-> g(ds, "PatientID"),
     patient_name       |-> g(ds, "PatientName"),
     modality           |-> g(ds, "Modality"),
     study_date         |-> g(ds, "StudyDate"),
     series_description |-> g(ds, "SeriesDescription"),
     instance_number    |-> InstanceNumberOf(ds),
     window_center      |-> WindowCenterOf(ds),
     window_width       |-> WindowWidthOf(ds)]

\* rows, cols, bits_allocated (lines 156-158)
DimMeta(ds, img8) ==
    [rows           |-> Some(IntOrDefault(ds.tags["Rows"], img8.rows)),
     cols           |-> Some(IntOrDefault(ds.tags["Columns"], img8.cols)),
     bits_allocated |-> Some(IntOrDefault(ds.tags["BitsAllocated"], 16))]

\* _dicom_to_png_and_meta up to the rendering (lines 105-158), as one
\* function of the data set: whether it returns, the meta it builds and the
\* image it renders.
dicom_to_png_and_meta(ds) ==
    IF ~ds.parse \/ ds.pixels = None \/ DimsRaise(ds)
    THEN [ok |-> FALSE]
    ELSE LET tm    == TagMeta(ds)
             arr   == ApplyRescale(ds, ds.pixels[1])
             photo == g(ds, "PhotometricInterpretation")
             img8  == Polarity(photo,
                          rescale_to_uint8(arr, tm.window_center, tm.window_width))
         IN  [ok   |-> TRUE,
              meta |-> tm @@ DimMeta(ds, img8)
                         @@ [photometric_interpretation |-> photo],
              img8 |-> img8]

(* ------------------------------------------------------------------ *)
(* Inputs                                                             *)
(* ------------------------------------------------------------------ *)

\* Longest generated pixel row.
MaxPixels == 2

\* Most tags of one data set that are missing or malformed.
MaxFaults == 2

\* Uploads in flight or finished.
MaxUploads == 2

Image(rows, cols, px) ==
    [dtype |-> "int", rows |-> rows, cols |-> cols, px |-> px]

PixelValues == {0, 150, 201, 1006, 65535}

RECURSIVE Rows1(_)
Rows1(n) ==
    IF n = 0 THEN {<<>>}
    ELSE {Append(s, v) : s \in Rows1(n - 1), v \in PixelValues}

EndToEndImage == Image(2, 2, <<0, 128, 256, 512>>)

SampleImages ==
    {EndToEndImage, Image(1, 3, <<10, 20, 30>>), Image(2, 2, <<5, 5, 5, 5>>)}

Images ==
    SampleImages
      \cup {Image(1, Len(s), s) : s \in UNION {Rows1(n) : n \in 1..MaxPixels}}

\* <<RescaleSlope, RescaleIntercept>>
RescaleOptions ==
    {<<Missing, Missing>>,
     <<Ok(Single(Rat(1, 1))), Ok(Single(Rat(0, 1)))>>,
     <<Ok(Single(Rat(2, 1))), Ok(Single(Rat(0 - 100, 1)))>>,
     <<Ok(Single(Rat(5, 10))), Ok(Single(Rat(0 - 1024, 1)))>>,
     <<Missing, Ok(Single(Rat(0 - 100, 1)))>>,
     <<Ok(Single(Rat(2, 1))), Missing>>,
     <<Malformed, Ok(Single(Rat(0 - 100, 1)))>>,
     <<Ok(Single(Rat(2, 1))), Malformed>>}

\* <<WindowCenter, WindowWidth>>
WindowOptions ==
    {<<Missing, Missing>>,
     <<Ok(Single(Rat(128, 1))), Ok(Single(Rat(256, 1)))>>,
     <<Ok(Multi(<<Rat(40, 1), Rat(300, 1)>>)), Ok(Multi(<<Rat(400, 1), Rat(1500, 1)>>))>>,
     <<Ok(Single(Rat(9625, 10))), Ok(Single(Rat(866, 10)))>>,
     <<Ok(Single(Rat(128, 1))), Missing>>,
     <<Missing, Ok(Single(Rat(256, 1)))>>,
     <<Ok(Single(Rat(128, 1))), Ok(Single(Rat(0, 1)))>>,
     <<Ok(Single(Rat(128, 1))), Ok(Single(Rat(0 - 256, 1)))>>,
     <<Ok(Multi(<<>>)), Ok(Single(Rat(256, 1)))>>}

PhotoOptions ==
    {Ok("MONOCHROME1"), Ok("MONOCHROME2"), Ok("RGB"), Missing}

\* A well-formed single-frame data set around an image.
BaseTags(img) ==
    [t \in TagNames |->
        CASE t = "PatientID" -> Ok("P1")
          [] t = "PatientName" -> Ok("DOE^JANE")
          [] t = "Modality" -> Ok("CT")
          [] t = "StudyDate" -> Ok("20240101")
          [] t = "SeriesDescription" -> Ok("AXIAL")
          [] t = "PhotometricInterpretation" -> Ok("MONOCHROME2")
          [] t = "InstanceNumber" -> Ok(1)
          [] t = "Rows" -> Ok(img.rows)
          [] t = "Columns" -> Ok(img.cols)
          [] t = "BitsAllocated" -> Ok(16)
          [] t = "WindowCenter" -> Ok(Single(Rat(128, 1)))
          [] t = "WindowWidth" -> Ok(Single(Rat(256, 1)))
          [] t = "RescaleSlope" -> Ok(Single(Rat(1, 1)))
          [] t = "RescaleIntercept" -> Ok(Single(Rat(0, 1)))]

DataSet(img, tags) ==
    [parse |-> TRUE, pixels |-> Some(img), tags |-> tags]

\* The end-to-end data set of the specification's scenario.
EndToEnd == DataSet(EndToEndImage, BaseTags(EndToEndImage))

PixelDataSets ==
    {DataSet(img, [BaseTags(img) EXCEPT !["RescaleSlope"] = rs[1],
                                        !["RescaleIntercept"] = rs[2],
                                        !["WindowCenter"] = w[1],
                                        !["WindowWidth"] = w[2],
                                        !["PhotometricInterpretation"] = ph]) :
        img \in Images, rs \in RescaleOptions, w \in WindowOptions,
        ph \in PhotoOptions}

Faults ==
    UNION {[F -> {Missing, Malformed}] :
             F \in {S \in SUBSET TagNames : Cardinality(S) <= MaxFaults}}

TagDataSets ==
    {DataSet(EndToEndImage,
             [t \in TagNames |->
                 IF t \in DOMAIN f THEN f[t] ELSE BaseTags(EndToEndImage)[t]]) :
        f \in Faults}

\* Bytes pydicom cannot parse, and a data set without a pixel data element.
NotDicom == [EndToEnd EXCEPT !.parse = FALSE]

NoPixels == [EndToEnd EXCEPT !.pixels = None]

(* ------------------------------------------------------------------ *)
(* State                                                              *)
(* ------------------------------------------------------------------ *)

VARIABLES
    ds,       \* the data set _dicom_to_png_and_meta is decoding
    stage,    \* the statement of _dicom_to_png_and_meta about to run
    meta,     \* its locals that end up in meta
    arr,      \* its local arr
    img8,     \* its local img8
    upc,      \* per upload: the statement of upload_dicom about to run
    ufile,    \* per upload: the uploaded file
    uuid,     \* per upload: uuid4().hex, 0 before it is drawn
    umeta,    \* per upload: the meta _dicom_to_png_and_meta returned
    disk,     \* the files under MEDIA_ROOT, each with the upload that wrote it
    studies,  \* the "study" collection, in creation order
    resp      \* per upload: the HTTP response, status 0 before it is sent

decodeVars == <<ds, stage, meta, arr, img8>>

uploadVars == <<upc, ufile, uuid, umeta, disk, studies, resp>>

vars == <<ds, stage, meta, arr, img8, upc, ufile, uuid, umeta, disk, studies, resp>>

Uploads == 1..MaxUploads

NoArray == [dtype |-> "int", rows |-> 0, cols |-> 0, px |-> <<>>]

NoMeta ==
    [patient_id |-> None, patient_name |-> None, modality |-> None,
     study_date |-> None, series_description |-> None,
     instance_number |-> None, window_center |-> None, window_width |-> None,
     rows |-> None, cols |-> None, bits_allocated |-> None,
     photometric_interpretation |-> None,
     image_path |-> None, thumbnail_path |-> None]

(* ------------------------------------------------------------------ *)
(* _dicom_to_png_and_meta, statement by statement                     *)
(* ------------------------------------------------------------------ *)

DecodeIdle ==
    /\ stage = "dcmread"
    /\ meta = NoMeta
    /\ arr = NoArray
    /\ img8 = NoArray

UploadIdle ==
    /\ upc = [u \in Uploads |-> "idle"]
    /\ ufile = [u \in Uploads |-> NotDicom]
    /\ uuid = [u \in Uploads |-> 0]
    /\ umeta = [u \in Uploads |-> NoMeta]
    /\ disk = {}
    /\ studies = <<>>
    /\ resp = [u \in Uploads |-> [status |-> 0, detail |-> ""]]

\* ds = pydicom.dcmread(BytesIO(content))
DcmRead ==
    /\ stage = "dcmread"
    /\ stage' = IF ds.parse THEN "tags" ELSE "failed"
    /\ UNCHANGED <<ds, meta, arr, img8>>
    /\ UNCHANGED uploadVars

\* lines 108-136
ExtractTags ==
    /\ stage = "tags"
    /\ meta' = TagMeta(ds) @@ meta
    /\ stage' = "pixel_array"
    /\ UNCHANGED <<ds, arr, img8>>
    /\ UNCHANGED uploadVars

\* arr = ds.pixel_array
PixelArray ==
    /\ stage = "pixel_array"
    /\ IF ds.pixels = None
       THEN stage' = "failed" /\ arr' = arr
       ELSE stage' = "rescale" /\ arr' = ds.pixels[1]
    /\ UNCHANGED <<ds, meta, img8>>
    /\ UNCHANGED uploadVars

\* lines 141-147
Rescale ==
    /\ stage = "rescale"
    /\ arr' = ApplyRescale(ds, arr)
    /\ stage' = "normalize"
    /\ UNCHANGED <<ds, meta, img8>>
    /\ UNCHANGED uploadVars

\* img8 = _rescale_to_uint8(arr, window_center, window_width)
Normalize ==
    /\ stage = "normalize"
    /\ img8' = rescale_to_uint8(arr, meta.window_center, meta.window_width)
    /\ stage' = "polarity"
    /\ UNCHANGED <<ds, meta, arr>>
    /\ UNCHANGED uploadVars

\* lines 151-154
PolarityStep ==
    /\ stage = "polarity"
    /\ LET photo == g(ds, "PhotometricInterpretation")
       IN  /\ meta' = [meta EXCEPT !.photometric_interpretation = photo]
           /\ img8' = Polarity(photo, img8)
    /\ stage' = "dims"
    /\ UNCHANGED <<ds, arr>>
    /\ UNCHANGED uploadVars

\* lines 156-158
Dims ==
    /\ stage = "dims"
    /\ IF DimsRaise(ds)
       THEN stage' = "failed" /\ meta' = meta
       ELSE stage' = "render" /\ meta' = DimMeta(ds, img8) @@ meta
    /\ UNCHANGED <<ds, arr, img8>>
    /\ UNCHANGED uploadVars

DecodeNext ==
    \/ DcmRead
    \/ ExtractTags
    \/ PixelArray
    \/ Rescale
    \/ Normalize
    \/ PolarityStep
    \/ Dims

PixelInit ==
    /\ ds \in PixelDataSets \cup {NotDicom, NoPixels}
    /\ DecodeIdle
    /\ UploadIdle

TagInit ==
    /\ ds \in TagDataSets \cup {NotDicom, NoPixels}
    /\ DecodeIdle
    /\ UploadIdle

\* The pixel pipeline over images, rescale parameters, windows and polarity.
PixelSpec == PixelInit /\ [][DecodeNext]_vars

\* The tag extraction over data sets with missing and malformed elements.
TagSpec == TagInit /\ [][DecodeNext]_vars

(* ------------------------------------------------------------------ *)
(* upload_dicom                                                       *)
(* ------------------------------------------------------------------ *)

\* A data set whose Rows element int() rejects.
BadRows == DataSet(EndToEndImage, [BaseTags(EndToEndImage) EXCEPT !["Rows"] = Malformed])

SourceFiles == {EndToEnd, NotDicom, BadRows}

\* The tokens uuid4().hex can return.
Tokens == 1..(MaxUploads + 1)

\* uid = uuid.uuid4().hex: a random 128-bit token.  Two draws coincide with
\* probability 2^-122, which no state machine expresses; the draw is any
\* token not drawn before.
Uuid4(issued) == Tokens \ issued

\* ImgRel with a file name that does not depend on the uid.
ImgRelFixedName(uid) == [dir |-> "images", stem |-> 0, ext |-> ".png"]

\* img_rel = f"images/{uid}.png"
ImgRel(uid) == [dir |-> "images", stem |-> uid, ext |-> ".png"]

\* thumb_rel = f"thumbnails/{uid}.png"
ThumbRel(uid) == [dir |-> "thumbnails", stem |-> uid, ext |-> ".png"]

\* os.path.join(MEDIA_ROOT, rel)
DiskPath(rel) == [root |-> "MEDIA_ROOT"] @@ rel

\* f"/media/{rel}"
MediaUrl(rel) == [root |-> "/media"] @@ rel

\* meta (lines 174-189)
MetaOf(dsMeta, uid) ==
    [image_path     |-> Some(MediaUrl(ImgRel(uid))),
     thumbnail_path |-> Some(MediaUrl(ThumbRel(uid)))] @@ dsMeta @@ NoMeta

\* Study(**meta): the schema's remaining fields take their defaults.
Study(m) == m @@ [findings |-> None, tags |-> <<>>]

\* create_document("study", study): appends the record under a new id.
create_document(coll, study) ==
    Append(coll, [id |-> Len(coll) + 1] @@ study)

Issued == {uuid[u] : u \in Uploads} \ {0}

\* raise HTTPException(status_code=400, detail=f"Failed to process DICOM: {str(e)}")
Raise400(u, e) ==
    /\ upc' = [upc EXCEPT ![u] = "done"]
    /\ resp' = [resp EXCEPT ![u] = [status |-> 400, detail |-> e]]

\* POST /api/studies/upload arrives with a file.
Request(u) ==
    /\ upc[u] = "idle"
    /\ \E f \in SourceFiles : ufile' = [ufile EXCEPT ![u] = f]
    /\ upc' = [upc EXCEPT ![u] = "read"]
    /\ UNCHANGED <<uuid, umeta, disk, studies, resp>>
    /\ UNCHANGED decodeVars

\* content = await file.read()
ReadBody(u) ==
    /\ upc[u] = "read"
    /\ upc' = [upc EXCEPT ![u] = "decode"]
    /\ UNCHANGED <<ufile, uuid, umeta, disk, studies, resp>>
    /\ UNCHANGED decodeVars

ReadFails(u) ==
    /\ upc[u] = "read"
    /\ Raise400(u, "read")
    /\ UNCHANGED <<ufile, uuid, umeta, disk, studies>>
    /\ UNCHANGED decodeVars

\* _dicom_to_png_and_meta, lines 105-170: decode, render, draw the uid.
Decode(u) ==
    /\ upc[u] = "decode"
    /\ dicom_to_png_and_meta(ufile[u]).ok
    /\ \E t \in Uuid4(Issued) : uuid' = [uuid EXCEPT ![u] = t]
    /\ upc' = [upc EXCEPT ![u] = "save_image"]
    /\ UNCHANGED <<ufile, umeta, disk, studies, resp>>
    /\ UNCHANGED decodeVars

DecodeFails(u) ==
    /\ upc[u] = "decode"
    /\ ~dicom_to_png_and_meta(ufile[u]).ok
    /\ Raise400(u, "decode")
    /\ UNCHANGED <<ufile, uuid, umeta, disk, studies>>
    /\ UNCHANGED decodeVars

\* image.save(os.path.join(MEDIA_ROOT, img_rel), format="PNG")
SaveImage(u) ==
    /\ upc[u] = "save_image"
    /\ disk' = disk \cup {[path |-> DiskPath(ImgRel(uuid[u])), by |-> u]}
    /\ upc' = [upc EXCEPT ![u] = "save_thumb"]
    /\ UNCHANGED <<ufile, uuid, umeta, studies, resp>>
    /\ UNCHANGED decodeVars

SaveImageFails(u) ==
    /\ upc[u] = "save_image"
    /\ Raise400(u, "image.save")
    /\ UNCHANGED <<ufile, uuid, umeta, disk, studies>>
    /\ UNCHANGED decodeVars

\* SaveThumb that builds meta without having written the thumbnail.
SaveThumbSkipped(u) ==
    /\ upc[u] = "save_thumb"
    /\ umeta' = [umeta EXCEPT
                   ![u] = MetaOf(dicom_to_png_and_meta(ufile[u]).meta, uuid[u])]
    /\ upc' = [upc EXCEPT ![u] = "create"]
    /\ UNCHANGED <<ufile, uuid, disk, studies, resp>>
    /\ UNCHANGED decodeVars

\* thumb.save(os.path.join(MEDIA_ROOT, thumb_rel), format="PNG"), then
\* meta is built and returned.
SaveThumb(u) ==
    /\ upc[u] = "save_thumb"
    /\ disk' = disk \cup {[path |-> DiskPath(ThumbRel(uuid[u])), by |-> u]}
    /\ umeta' = [umeta EXCEPT
                   ![u] = MetaOf(dicom_to_png_and_meta(ufile[u]).meta, uuid[u])]
    /\ upc' = [upc EXCEPT ![u] = "create"]
    /\ UNCHANGED <<ufile, uuid, studies, resp>>
    /\ UNCHANGED decodeVars

SaveThumbFails(u) ==
    /\ upc[u] = "save_thumb"
    /\ Raise400(u, "thumb.save")
    /\ UNCHANGED <<ufile, uuid, umeta, disk, studies>>
    /\ UNCHANGED decodeVars

\* study = Study(**meta); doc_id = create_document("study", study);
\* return StudyOut(...)
Create(u) ==
    /\ upc[u] = "create"
    /\ studies' = create_document(studies, Study(umeta[u]))
    /\ upc' = [upc EXCEPT ![u] = "done"]
    /\ resp' = [resp EXCEPT ![u] = [status |-> 200, detail |-> "ok"]]
    /\ UNCHANGED <<ufile, uuid, umeta, disk>>
    /\ UNCHANGED decodeVars

CreateFails(u) ==
    /\ upc[u] = "create"
    /\ Raise400(u, "create_document")
    /\ UNCHANGED <<ufile, uuid, umeta, disk, studies>>
    /\ UNCHANGED decodeVars

Init ==
    /\ ds = NotDicom
    /\ DecodeIdle
    /\ UploadIdle

Next ==
    \E u \in Uploads :
        \/ Request(u)
        \/ ReadBody(u)
        \/ ReadFails(u)
        \/ Decode(u)
        \/ DecodeFails(u)
        \/ SaveImage(u)
        \/ SaveImageFails(u)
        \/ SaveThumb(u)
        \/ SaveThumbFails(u)
        \/ Create(u)
        \/ CreateFails(u)

\* Uploads against the media directory and the study collection.
Spec == Init /\ [][Next]_vars

(* ------------------------------------------------------------------ *)
(* Exact arithmetic for stating the properties                        *)
(* ------------------------------------------------------------------ *)

\* The same float32 value with an odd significand (or zero).
RECURSIVE Strip(_)
Strip(a) ==
    IF a[1] # 0 /\ a[1] % 2 = 0 THEN Strip(<<a[1] \div 2, a[2] + 1>>) ELSE a

\* The sign of a - n/d, computed exactly.
Cmp32Rat(a, r) ==
    LET s == Strip(a)
    IN  IF s[2] >= 0 THEN Sgn(s[1] * Pow2(s[2]) * r.d - r.n)
        ELSE Sgn(s[1] * r.d - r.n * Pow2(0 - s[2]))

\* The float32 a as an integer count of 2^e, e no larger than its exponent.
Units(a, e) ==
    LET s == Strip(a) IN s[1] * Pow2(s[2] - e)

MinExp3(a, b, c) ==
    LET ea == Strip(a)[2]
        eb == Strip(b)[2]
        ec == Strip(c)[2]
        m  == IF ea <= eb THEN ea ELSE eb
    IN  IF m <= ec THEN m ELSE ec

\* floor(255 * (v - mn) / (mx - mn)) over the exact values of three float32s.
ExactScale(v, mn, mx) ==
    LET e == MinExp3(v, mn, mx)
    IN  (255 * (Units(v, e) - Units(mn, e))) \div (Units(mx, e) - Units(mn, e))

\* The first value of a numeric tag, or the default when the tag is absent.
TagRat(t, default) ==
    IF t.st = "ok" THEN t.v[1].vals[1] ELSE default

Normalized == {"polarity", "dims", "render"}

Rescaled == {"normalize"} \cup Normalized

\* No usable window: the centre or the width is absent, or the width is <= 0.
NoWindow ==
    \/ meta.window_center = None
    \/ meta.window_width = None
    \/ meta.window_width[1].n <= 0

FileOnDisk(rel) == \E e \in disk : e.path = [root |-> "MEDIA_ROOT"] @@ rel

RecordOf(u) ==
    \E i \in DOMAIN studies :
        studies[i].image_path
          = Some([root |-> "/media", dir |-> "images", stem |-> uuid[u], ext |-> ".png"])

ImageOf(u) ==
    \E e \in disk :
        /\ e.by = u
        /\ e.path.dir = "images"

ThumbOf(u) ==
    \E e \in disk :
        /\ e.by = u
        /\ e.path.dir = "thumbnails"

(* ------------------------------------------------------------------ *)
(* Properties                                                         *)
(* ------------------------------------------------------------------ *)

\* C1: once an upload has ended, either its study record and both of its
\* artifacts (full image and thumbnail) exist, or none of the three does.
C1_AllOrNothing ==
    \A u \in Uploads :
        upc[u] = "done" =>
            \/ (RecordOf(u) /\ ImageOf(u) /\ ThumbOf(u))
            \/ (~RecordOf(u) /\ ~ImageOf(u) /\ ~ThumbOf(u))

\* The end-to-end scenario: 2x2 raw samples [0, 128, 256, 512], slope 1,
\* intercept 0, window centre 128 and width 256, MONOCHROME2.
IsEndToEnd ==
    /\ ds.parse
    /\ ds.pixels = Some(EndToEndImage)
    /\ ds.tags["RescaleSlope"] = Ok(Single(Rat(1, 1)))
    /\ ds.tags["RescaleIntercept"] = Ok(Single(Rat(0, 1)))
    /\ ds.tags["WindowCenter"] = Ok(Single(Rat(128, 1)))
    /\ ds.tags["WindowWidth"] = Ok(Single(Rat(256, 1)))
    /\ ds.tags["PhotometricInterpretation"] = Ok("MONOCHROME2")

EndToEndReal ==
    /\ \A i \in 1..4 : Cmp32Rat(arr.px[i], Rat(EndToEndImage.px[i], 1)) = 0
    /\ WindowLo(meta.window_center, meta.window_width).n = 0
    /\ LET hi == WindowHi(meta.window_center, meta.window_width)
       IN  hi.n = 256 * hi.d

\* C2 as stated: in the end-to-end scenario the real values equal the raw
\* ones, the window is [0, 256] and the 8-bit output is [0, 128, 255, 255],
\* not inverted.
C2_EndToEnd128 ==
    IsEndToEnd /\ stage \in Normalized =>
        /\ EndToEndReal
        /\ img8.px = <<0, 128, 255, 255>>

\* C2 amended: in the end-to-end scenario the real values equal the raw
\* ones, the window is [0, 256] and the 8-bit output is [0, 127, 255, 255]
\* (127.5 is truncated), before and after the polarity step.
C2_EndToEnd127 ==
    IsEndToEnd /\ stage \in Normalized =>
        /\ EndToEndReal
        /\ img8.px = <<0, 127, 255, 255>>

C2_Witness ==
    /\ IsEndToEnd
    /\ stage = "render"
    /\ img8.px[2] = 127

\* C3: with a window of width > 0, lo = center - width/2 and
\* hi = center + width/2, every normalised sample is in [0, 255], every
\* sample at or below lo gives exactly 0 and every sample at or above hi
\* gives exactly 255.
C3_WindowSaturates ==
    stage = "polarity" /\ ~NoWindow =>
        LET lo == WindowLo(meta.window_center, meta.window_width)
            hi == WindowHi(meta.window_center, meta.window_width)
            a  == Astype32(arr)
        IN  \A i \in DOMAIN a.px :
                /\ img8.px[i] \in 0..255
                /\ Cmp32Rat(a.px[i], lo) <= 0 => img8.px[i] = 0
                /\ Cmp32Rat(a.px[i], hi) >= 0 => img8.px[i] = 255

\* C4: without a usable window the image is mapped linearly from its
\* observed [min, max] to [0, 255]: the minimum gives 0, the maximum 255 and
\* each sample v the truncation of 255 * (v - min) / (max - min).
C4_MinMaxFallback ==
    stage = "polarity" /\ NoWindow =>
        LET a  == Astype32(arr)
            mn == SeqMin(a.px)
            mx == SeqMax(a.px)
        IN  mx # mn =>
              \A i \in DOMAIN a.px :
                  /\ img8.px[i] = ExactScale(a.px[i], mn, mx)
                  /\ a.px[i] = mn => img8.px[i] = 0
                  /\ a.px[i] = mx => img8.px[i] = 255

C4_Witness ==
    /\ stage = "polarity"
    /\ NoWindow
    /\ arr.px = <<F32(10, 1), F32(20, 1), F32(30, 1)>>
    /\ img8.px = <<0, 127, 255>>

\* C5: without a usable window, an image whose samples are all equal is
\* normalised, without an error, to an image of the same dimensions whose
\* samples are all 0.
C5_FlatImageZero ==
    stage = "polarity" /\ NoWindow =>
        LET a == Astype32(arr)
        IN  (\A i, j \in DOMAIN a.px : a.px[i] = a.px[j]) =>
              /\ img8.rows = arr.rows
              /\ img8.cols = arr.cols
              /\ DOMAIN img8.px = DOMAIN arr.px
              /\ \A i \in DOMAIN img8.px : img8.px[i] = 0

C5_Witness ==
    /\ stage = "polarity"
    /\ NoWindow
    /\ arr.px = <<F32(5, 1), F32(5, 1), F32(5, 1), F32(5, 1)>>
    /\ img8.rows = 2
    /\ img8.cols = 2
    /\ img8.px = <<0, 0, 0, 0>>

\* C6: for MONOCHROME1 every normalised sample v becomes 255 - v, stays in
\* [0, 255], and inverting twice gives the image back; for every other or
\* absent photometric interpretation the normalised image is unchanged.
C6_Polarity ==
    stage \in {"dims", "render"} =>
        LET n == rescale_to_uint8(arr, meta.window_center, meta.window_width)
        IN  /\ \A i \in DOMAIN n.px :
                  /\ img8.px[i] \in 0..255
                  /\ img8.px[i] =
                       IF ds.tags["PhotometricInterpretation"] = Ok("MONOCHROME1")
                       THEN 255 - n.px[i] ELSE n.px[i]
            /\ DOMAIN img8.px = DOMAIN n.px
            /\ Invert(Invert(img8)) = img8

C6_Witness ==
    /\ stage = "dims"
    /\ ds.tags["PhotometricInterpretation"] = Ok("MONOCHROME1")
    /\ \E i \in DOMAIN img8.px :
          /\ rescale_to_uint8(arr, meta.window_center, meta.window_width).px[i] = 200
          /\ img8.px[i] = 55

\* What a well-formed tag decodes to, and what a faulty one defaults to.
Decoded(t, default) ==
    IF ds.tags[t].st # "ok" THEN default
    ELSE IF t \in FloatTags THEN Some(ds.tags[t].v[1].vals[1])
    ELSE ds.tags[t].v

\* C7: a missing or malformed optional tag makes only its own field
\* None/default; every well-formed tag keeps its decoded value and the
\* decode never fails because of a tag.
C7_TagsFaultTolerant ==
    stage \in {"render", "failed"} /\ ds.parse /\ ds.pixels # None =>
        /\ stage = "render"
        /\ meta.patient_id = Decoded("PatientID", None)
        /\ meta.patient_name = Decoded("PatientName", None)
        /\ meta.modality = Decoded("Modality", None)
        /\ meta.study_date = Decoded("StudyDate", None)
        /\ meta.series_description = Decoded("SeriesDescription", None)
        /\ meta.instance_number = Decoded("InstanceNumber", None)
        /\ meta.window_center = Decoded("WindowCenter", None)
        /\ meta.window_width = Decoded("WindowWidth", None)
        /\ meta.rows = Decoded("Rows", Some(ds.pixels[1].rows))
        /\ meta.cols = Decoded("Columns", Some(ds.pixels[1].cols))
        /\ meta.bits_allocated = Decoded("BitsAllocated", Some(16))
        /\ meta.photometric_interpretation
             = Decoded("PhotometricInterpretation", None)

\* C8: any two uploads have distinct identifiers, distinct image paths and
\* distinct thumbnail paths, and no file is written by two uploads.
C8_UniqueArtifacts ==
    /\ \A u, v \in Uploads :
          u # v /\ uuid[u] # 0 /\ uuid[v] # 0 =>
              /\ uuid[u] # uuid[v]
              /\ DiskPath(ImgRel(uuid[u])) # DiskPath(ImgRel(uuid[v]))
              /\ DiskPath(ThumbRel(uuid[u])) # DiskPath(ThumbRel(uuid[v]))
              /\ DiskPath(ImgRel(uuid[u])) # DiskPath(ThumbRel(uuid[v]))
    /\ \A e, f \in disk : e.path = f.path => e.by = f.by

C8_Witness ==
    \E u, v \in Uploads :
        /\ u # v
        /\ ufile[u] = ufile[v]
        /\ resp[u].status = 200
        /\ resp[v].status = 200
        /\ Cardinality({e.path : e \in disk}) >= 4

\* C9: the real value handed to the normaliser is raw * slope + intercept,
\* slope and intercept defaulting to 1 and 0; when applying the rescale
\* raises, the decode goes on with the raw samples unchanged.
C9_RescaleLinear ==
    stage \in Rescaled =>
        LET raw == ds.pixels[1]
            s   == TagRat(ds.tags["RescaleSlope"], Rat(1, 1))
            c   == TagRat(ds.tags["RescaleIntercept"], Rat(0, 1))
        IN  IF \/ ds.tags["RescaleSlope"].st = "malformed"
               \/ ds.tags["RescaleIntercept"].st = "malformed"
            THEN arr = raw
            ELSE /\ arr.rows = raw.rows
                 /\ arr.cols = raw.cols
                 /\ DOMAIN arr.px = DOMAIN raw.px
                 /\ \A i \in DOMAIN raw.px :
                       Cmp32Rat(arr.px[i],
                                Rat(raw.px[i] * s.n * c.d + c.n * s.d, s.d * c.d)) = 0

C9_Witness ==
    /\ stage = "normalize"
    /\ ds.tags["RescaleSlope"] = Ok(Single(Rat(2, 1)))
    /\ ds.tags["RescaleIntercept"] = Ok(Single(Rat(0 - 100, 1)))
    /\ ds.pixels[1].px[1] = 150
    /\ arr.px[1] = F32(200, 1)

\* C10: the image is written before the thumbnail and the study record is
\* created after both; every study record has image_path
\* /media/images/<id>.png and thumbnail_path /media/thumbnails/<id>.png with
\* one <id>, and both files exist.
C10_RecordAfterArtifacts ==
    /\ \A i \in DOMAIN studies :
          \E t \in Tokens :
              /\ studies[i].image_path
                   = Some([root |-> "/media", dir |-> "images", stem |-> t, ext |-> ".png"])
              /\ studies[i].thumbnail_path
                   = Some([root |-> "/media", dir |-> "thumbnails", stem |-> t, ext |-> ".png"])
              /\ FileOnDisk([dir |-> "images", stem |-> t, ext |-> ".png"])
              /\ FileOnDisk([dir |-> "thumbnails", stem |-> t, ext |-> ".png"])
    /\ \A u \in Uploads :
          /\ ThumbOf(u) => ImageOf(u)
          /\ upc[u] = "save_thumb" => ImageOf(u) /\ ~ThumbOf(u)
          /\ upc[u] = "create" => ImageOf(u) /\ ThumbOf(u)
          /\ RecordOf(u) => ImageOf(u) /\ ThumbOf(u)

C10_Witness ==
    /\ Len(studies) >= 1
    /\ \E u \in Uploads : resp[u].status = 200 /\ RecordOf(u)

====
